---- MODULE Spec2Model ----
(***************************************************************************)
(* Model of src/pdf_converter.py: the column deduplication                  *)
(* (make_unique_columns), the page-pair table builder (procesar_pdf) and   *)
(* the poller (check_for_new_pdfs, process_pdf_file, main).                *)
(*                                                                         *)
(* A DataFrame is a record [columns, data]: columns is the sequence of     *)
(* column names, data the sequence of rows, each row a sequence of cells   *)
(* as long as columns.  Rows are indexed 1..Len(data) (a RangeIndex).      *)
(* An extracted table is what pdfplumber returns: a sequence of rows whose *)
(* first row is the header; <<>> stands for "no table" (None or []).       *)
(***************************************************************************)
EXTENDS Integers, Sequences, FiniteSets, TLC

VARIABLES
    cols_in, cols_out, pcC,
    pdf, pc, i, df_left, dataframes,
    resultado_final, ret, excel_file,
    processed_files, tick, pcM, listed, new_files, pos, attempted, pcF, steps

varsC == <<cols_in, cols_out, pcC>>
varsP == <<pdf, pc, i, df_left, dataframes,
           resultado_final, ret, excel_file>>
varsM == <<processed_files, tick, pcM, listed, new_files, pos, attempted, pcF,
           steps>>
vars == <<varsC, varsP, varsM>>

(***************************************************************************)
(* Bounds.                                                                 *)
(***************************************************************************)
MaxCols == 4
MaxPages == 5
MaxTicks == 2

\* pd.NA / NaN / None: the missing-cell marker.
NA == "<NA>"

Max(a, b) == IF a >= b THEN a ELSE b

Range(s) == {s[k] : k \in DOMAIN s}

(***************************************************************************)
(* make_unique_columns                                                     *)
(***************************************************************************)

\* cols.duplicated(): position k repeats a name seen at an earlier position.
duplicated(cols, k) == \E j \in 1..(k - 1) : cols[j] = cols[k]

\* cols[cols.duplicated()].unique(): the repeated names, each once, in the
\* order of their first repeat.
RECURSIVE DupNames(_, _)
DupNames(cols, k) ==
    IF k > Len(cols) THEN <<>>
    ELSE LET rest == DupNames(cols, k + 1)
         IN  IF duplicated(cols, k)
                /\ ~\E j \in 1..(k - 1) : duplicated(cols, j) /\ cols[j] = cols[k]
             THEN <<cols[k]>> \o rest
             ELSE rest

\* f"{dup}_{i}"
Suffixed(dup, n) == dup \o "_" \o ToString(n)

\* The body of the loop over dup: indices = the positions that hold dup NOW
\* (cols as already rewritten for the earlier dups); the i-th of them
\* (i = 0, 1, ...) is left alone for i = 0 and becomes "<dup>_<i>" otherwise.
RenameDup(cols, dup) ==
    [k \in 1..Len(cols) |->
        LET rank == Cardinality({j \in 1..(k - 1) : cols[j] = dup})
        IN  IF cols[k] = dup /\ rank > 0 THEN Suffixed(dup, rank) ELSE cols[k]]

RECURSIVE RenameAll(_, _)
RenameAll(cols, dups) ==
    IF dups = <<>> THEN cols
    ELSE RenameAll(RenameDup(cols, Head(dups)), Tail(dups))

UniqueCols(cols) == RenameAll(cols, DupNames(cols, 1))

make_unique_columns(df) == [df EXCEPT !.columns = UniqueCols(df.columns)]

(***************************************************************************)
(* Specification SpecCols: make_unique_columns on every column-name        *)
(* sequence of at most MaxCols names over ColNames.                        *)
(***************************************************************************)
ColNames == {"a", "a_1", "b"}

ColSeqs == UNION {[1..n -> ColNames] : n \in 0..MaxCols}

IdleC == cols_in = <<>> /\ cols_out = <<>> /\ pcC = "idle"

InitCols == cols_in \in ColSeqs /\ cols_out = <<>> /\ pcC = "call"

CallMakeUnique ==
    /\ pcC = "call"
    /\ cols_out' = make_unique_columns([columns |-> cols_in, data |-> <<>>]).columns
    /\ pcC' = "returned"
    /\ UNCHANGED cols_in
    /\ UNCHANGED <<varsP, varsM>>

(***************************************************************************)
(* DataFrame operations used by procesar_pdf                               *)
(***************************************************************************)

\* pd.DataFrame(tabla[1:], columns=tabla[0])
DataFrame(tabla) == [columns |-> Head(tabla), data |-> Tail(tabla)]

\* The positions of cols, in order, whose name is not in names.
RECURSIVE PositionsNotNamed(_, _, _)
PositionsNotNamed(cols, names, k) ==
    IF k > Len(cols) THEN <<>>
    ELSE (IF cols[k] \in names THEN <<>> ELSE <<k>>)
         \o PositionsNotNamed(cols, names, k + 1)

\* df.loc[:, mask] / df.drop(columns=...): the columns at positions ks.
TakeColumns(df, ks) ==
    [columns |-> [c \in 1..Len(ks) |-> df.columns[ks[c]]],
     data    |-> [r \in 1..Len(df.data) |->
                    [c \in 1..Len(ks) |-> df.data[r][ks[c]]]]]

\* df.loc[:, df.columns != '']
DropEmptyNamed(df) == TakeColumns(df, PositionsNotNamed(df.columns, {""}, 1))

\* if name in df.columns: df = df.drop(columns=[name])
DropColumn(df, name) == TakeColumns(df, PositionsNotNamed(df.columns, {name}, 1))

\* Lines 56-59: the left table of a pair.
CleanLeft(tabla) == make_unique_columns(DropEmptyNamed(DataFrame(tabla)))

\* CleanRight without the removal of the "Nombre" column.
CleanRightKeepsNombre(tabla) ==
    make_unique_columns(DropColumn(DropEmptyNamed(DataFrame(tabla)), "Nº"))

\* Lines 65-72: the right table of a pair.
CleanRight(tabla) ==
    make_unique_columns(
        DropColumn(DropColumn(DropEmptyNamed(DataFrame(tabla)), "Nombre"), "Nº"))

\* A row of n missing cells.
MissingRow(n) == [c \in 1..n |-> NA]

\* ConcatColumns as an inner join: only the row positions both frames have.
ConcatColumnsInner(l, r) ==
    LET n == IF Len(l.data) <= Len(r.data) THEN Len(l.data) ELSE Len(r.data)
    IN  [columns |-> l.columns \o r.columns,
         data    |-> [k \in 1..n |-> l.data[k] \o r.data[k]]]

\* pd.concat([l, r], axis=1): both frames carry a RangeIndex, so the result
\* has the union 1..max of the two and row k is l's row k followed by r's
\* row k, a frame without a row k contributing missing cells.
ConcatColumns(l, r) ==
    [columns |-> l.columns \o r.columns,
     data    |-> [k \in 1..Max(Len(l.data), Len(r.data)) |->
                    (IF k <= Len(l.data) THEN l.data[k] ELSE MissingRow(Len(l.columns)))
                    \o
                    (IF k <= Len(r.data) THEN r.data[k] ELSE MissingRow(Len(r.columns)))]]

HasDuplicates(cols) == \E j, k \in 1..Len(cols) : j < k /\ cols[j] = cols[k]

\* The union of the frames' columns, in order of first appearance.
RECURSIVE UnionColumns(_, _)
UnionColumns(acc, dfs) ==
    IF dfs = <<>> THEN acc
    ELSE LET new == SelectSeq(Head(dfs).columns, LAMBDA c : c \notin Range(acc))
         IN  UnionColumns(acc \o new, Tail(dfs))

SameColumns(dfs) == \A k \in 1..Len(dfs) : dfs[k].columns = dfs[1].columns

\* pd.concat(dfs, ignore_index=True) raises: nothing to concatenate, or
\* frames with different columns of which one has a repeated column name
\* (it cannot be reindexed to the union).
ConcatRowsRaises(dfs) ==
    \/ dfs = <<>>
    \/ /\ ~SameColumns(dfs)
       /\ \E k \in 1..Len(dfs) : HasDuplicates(dfs[k].columns)

\* A frame's rows over the columns cols (unique names): the cell of a column
\* the frame lacks is missing.
Reindexed(df, cols) ==
    [r \in 1..Len(df.data) |->
        [c \in 1..Len(cols) |->
            IF \E k \in 1..Len(df.columns) : df.columns[k] = cols[c]
            THEN df.data[r][CHOOSE k \in 1..Len(df.columns) : df.columns[k] = cols[c]]
            ELSE NA]]

RECURSIVE StackRows(_, _)
StackRows(dfs, cols) ==
    IF dfs = <<>> THEN <<>>
    ELSE Reindexed(Head(dfs), cols) \o StackRows(Tail(dfs), cols)

RECURSIVE AllRows(_)
AllRows(dfs) == IF dfs = <<>> THEN <<>> ELSE Head(dfs).data \o AllRows(Tail(dfs))

\* pd.concat(dfs, ignore_index=True) when it does not raise.
ConcatRows(dfs) ==
    IF SameColumns(dfs)
    THEN [columns |-> dfs[1].columns, data |-> AllRows(dfs)]
    ELSE LET cols == UnionColumns(<<>>, dfs)
         IN  [columns |-> cols, data |-> StackRows(dfs, cols)]

\* ReplaceEmpty left out: the empty strings stay.
ReplaceEmptySkipped(df) == df

\* df.replace('', pd.NA)
ReplaceEmpty(df) ==
    [df EXCEPT !.data = [r \in 1..Len(df.data) |->
        [c \in 1..Len(df.data[r]) |->
            IF df.data[r][c] = "" THEN NA ELSE df.data[r][c]]]]

\* dropna with how='any': a row with one missing cell is removed.
DropNaAny(df) ==
    [df EXCEPT !.data = SelectSeq(df.data,
        LAMBDA row : \A c \in 1..Len(row) : row[c] /= NA)]

\* df.dropna(how='all'): the rows whose cells are all missing are removed.
DropNaAll(df) ==
    [df EXCEPT !.data = SelectSeq(df.data,
        LAMBDA row : \E c \in 1..Len(row) : row[c] /= NA)]

(***************************************************************************)
(* procesar_pdf(pdf_path, excel_path)                                      *)
(*                                                                         *)
(* pdf is the sequence of what extract_table() yields for the pages of the *)
(* file at pdf_path; i is the loop variable (0-based, as in the code, so   *)
(* pdf.pages[i] is pdf[i + 1]); df_left is <<>> while the local is unbound *)
(* and <<frame>> once it is assigned; excel_file is the file at            *)
(* excel_path, which does not exist before the call (process_pdf_file      *)
(* passes a path in a fresh temporary directory, lines 151-153).           *)
(***************************************************************************)

\* The tables a page may yield.
TablaValores  == << <<"Nº", "Valor">>, <<"1", "10">>, <<"2", "20">> >>
TablaNombres  == << <<"Nombre", "Extra">>, <<"A", "x">>, <<"B", "y">> >>
TablaMixta    == << <<"Nº", "Nombre", "", "Total">>, <<"3", "C", "", "">> >>
TablaRepetida == << <<"Valor", "Valor", "Valor_1">>, <<"", "", "">>, <<"5", "", "7">> >>
TablaHuecos   == << <<"Extra">>, <<"">>, <<"p">>, <<NA>> >>
TablaSinFilas == << <<"Valor">> >>

Tables == {TablaValores, TablaNombres, TablaMixta, TablaRepetida, TablaHuecos,
           TablaSinFilas}

NoTable == <<>>

Pages == Tables \cup {NoTable}

PDFs == UNION {[1..n -> Pages] : n \in 0..MaxPages}

EmptyFrame == [columns |-> <<>>, data |-> <<>>]

Absent == [state |-> "absent", table |-> EmptyFrame]

\* LeftFrame with a page without a table giving an empty left frame instead
\* of the earlier pair's.
LeftFrameEmptyBlock(prev, tabla) ==
    IF tabla /= NoTable THEN <<CleanLeft(tabla)>>
    ELSE IF prev = <<>> THEN <<>> ELSE <<EmptyFrame>>

\* Lines 54-59: df_left after the left page of a pair; a page without a
\* table leaves the local as it was (unbound, or the earlier pair's frame).
LeftFrame(prev, tabla) == IF tabla /= NoTable THEN <<CleanLeft(tabla)>> ELSE prev

\* Lines 62-79: combinado, for a bound df_left.
Combinado(left, hasRight, tabla) ==
    IF hasRight /\ tabla /= NoTable
    THEN ConcatColumns(left, CleanRight(tabla))
    ELSE left

\* Lines 84-85.
ResultadoFinal(dfs) == DropNaAll(ReplaceEmpty(ConcatRows(dfs)))

HasRight == i + 1 < Len(pdf)

RightTabla == IF HasRight THEN pdf[i + 2] ELSE NoTable

IdleP ==
    /\ pdf = <<>> /\ pc = "idle" /\ i = 0 /\ df_left = <<>> /\ dataframes = <<>>
    /\ resultado_final = EmptyFrame /\ ret = "none" /\ excel_file = Absent

InitP ==
    /\ pdf \in PDFs
    /\ pc = "start" /\ i = 0 /\ df_left = <<>> /\ dataframes = <<>>
    /\ resultado_final = EmptyFrame /\ ret = "none"
    /\ excel_file = Absent

\* The except clause, lines 93-95: nothing is undone, False is returned.
Except ==
    /\ pc' = "done"
    /\ ret' = "False"

\* Line 51: pdfplumber.open succeeds.
Open ==
    /\ pc = "start"
    /\ pc' = "loop"
    /\ UNCHANGED <<pdf, i, df_left, dataframes, resultado_final, ret,
                   excel_file>>
    /\ UNCHANGED <<varsC, varsM>>

\* Line 51: pdfplumber.open raises.
OpenRaises ==
    /\ pc = "start"
    /\ Except
    /\ UNCHANGED <<pdf, i, df_left, dataframes, resultado_final, excel_file>>
    /\ UNCHANGED <<varsC, varsM>>

\* Lines 52-81: one iteration of the loop over the page pairs.
Pair ==
    /\ pc = "loop"
    /\ i < Len(pdf)
    /\ LeftFrame(df_left, pdf[i + 1]) /= <<>>
    /\ df_left' = LeftFrame(df_left, pdf[i + 1])
    /\ dataframes' = Append(dataframes, Combinado(df_left'[1], HasRight, RightTabla))
    /\ i' = i + 2
    /\ UNCHANGED <<pdf, pc, resultado_final, ret, excel_file>>
    /\ UNCHANGED <<varsC, varsM>>

\* Lines 75, 77, 79: df_left is read while unbound (the first left page
\* yielded no table): UnboundLocalError.
PairUnbound ==
    /\ pc = "loop"
    /\ i < Len(pdf)
    /\ LeftFrame(df_left, pdf[i + 1]) = <<>>
    /\ Except
    /\ UNCHANGED <<pdf, i, df_left, dataframes, resultado_final, excel_file>>
    /\ UNCHANGED <<varsC, varsM>>

\* Lines 54, 63: extract_table raises.
ExtractRaises ==
    /\ pc = "loop"
    /\ i < Len(pdf)
    /\ Except
    /\ UNCHANGED <<pdf, i, df_left, dataframes, resultado_final, excel_file>>
    /\ UNCHANGED <<varsC, varsM>>

\* Line 84: pd.concat raises (no pages, or frames that cannot be aligned).
ConcatRaises ==
    /\ pc = "loop"
    /\ i >= Len(pdf)
    /\ ConcatRowsRaises(dataframes)
    /\ Except
    /\ UNCHANGED <<pdf, i, df_left, dataframes, resultado_final, excel_file>>
    /\ UNCHANGED <<varsC, varsM>>

\* Lines 84-91: the table is assembled and to_excel writes it.
Write ==
    /\ pc = "loop"
    /\ i >= Len(pdf)
    /\ ~ConcatRowsRaises(dataframes)
    /\ resultado_final' = ResultadoFinal(dataframes)
    /\ excel_file' = [state |-> "written", table |-> resultado_final']
    /\ pc' = "done"
    /\ ret' = "True"
    /\ UNCHANGED <<pdf, i, df_left, dataframes>>
    /\ UNCHANGED <<varsC, varsM>>

\* Line 88: to_excel raises.  The destination may not have been touched
\* (it cannot be created) or may already hold part of the workbook (the
\* error comes while the file is written); the except clause removes nothing.
WriteRaises ==
    /\ pc = "loop"
    /\ i >= Len(pdf)
    /\ ~ConcatRowsRaises(dataframes)
    /\ resultado_final' = ResultadoFinal(dataframes)
    /\ \E created \in BOOLEAN :
          excel_file' = IF created
                        THEN [state |-> "partial", table |-> EmptyFrame]
                        ELSE excel_file
    /\ Except
    /\ UNCHANGED <<pdf, i, df_left, dataframes>>
    /\ UNCHANGED <<varsC, varsM>>

(***************************************************************************)
(* The poller: main, check_for_new_pdfs, process_pdf_file                  *)
(*                                                                         *)
(* An entry of the remote folder is [path, isFile, pdfSuffix]: path is     *)
(* path_lower, isFile is isinstance(entry, FileMetadata), pdfSuffix is     *)
(* path_lower.endswith('.pdf').  steps[p] is the sequence of steps of the  *)
(* latest process_pdf_file call for p that completed without error.        *)
(***************************************************************************)
Folder ==
    << [path |-> "/pdfs_a_convertir/a.pdf", isFile |-> TRUE,  pdfSuffix |-> TRUE],
       [path |-> "/pdfs_a_convertir/notas.txt", isFile |-> TRUE,  pdfSuffix |-> FALSE],
       [path |-> "/pdfs_a_convertir/b.pdf", isFile |-> TRUE,  pdfSuffix |-> TRUE],
       [path |-> "/pdfs_a_convertir/viejos.pdf", isFile |-> FALSE, pdfSuffix |-> TRUE],
       [path |-> "/pdfs_a_convertir/c.pdf", isFile |-> TRUE,  pdfSuffix |-> TRUE] >>

RemotePaths == {Folder[k].path : k \in DOMAIN Folder}

\* What files_list_folder may return: the entries present at the time, in
\* folder order.
Listings == {SelectSeq(Folder, LAMBDA e : e.path \in S) : S \in SUBSET RemotePaths}

PathsOf(entries) == [k \in 1..Len(entries) |-> entries[k].path]

\* Lines 128-136: the entries that are PDF files not processed before.
check_for_new_pdfs(entries, processed) ==
    SelectSeq(entries,
        LAMBDA e : e.isFile /\ e.pdfSuffix /\ e.path \notin processed)

\* NextFile with the loop abandoned at the first file that fails.
NextFileStopsAtFailure(k, returned) == IF returned THEN k + 1 ELSE Len(new_files) + 1

\* Lines 206-207: the loop goes on to the next file whatever
\* process_pdf_file returned.
NextFile(k, returned) == k + 1

FullRun == <<"download", "convert", "upload">>

IdleM ==
    /\ processed_files = {} /\ tick = 0 /\ pcM = "off" /\ listed = <<>>
    /\ new_files = <<>> /\ pos = 1 /\ attempted = <<>> /\ pcF = "none"
    /\ steps = [p \in RemotePaths |-> <<>>]

InitM ==
    /\ processed_files = {} /\ tick = 0 /\ pcM = "idle" /\ listed = <<>>
    /\ new_files = <<>> /\ pos = 1 /\ attempted = <<>> /\ pcF = "none"
    /\ steps = [p \in RemotePaths |-> <<>>]

\* Lines 188-198: main returns early (credentials missing, or
\* get_dropbox_client returned None).
MainNoClient ==
    /\ pcM = "idle"
    /\ tick < MaxTicks
    /\ tick' = tick + 1
    /\ listed' = <<>> /\ new_files' = <<>> /\ attempted' = <<>> /\ pos' = 1
    /\ UNCHANGED <<processed_files, pcM, pcF, steps>>
    /\ UNCHANGED <<varsC, varsP>>

\* Lines 200-205 with 125-136: the folder is listed and filtered.
MainList ==
    /\ pcM = "idle"
    /\ tick < MaxTicks
    /\ \E entries \in Listings :
          /\ listed' = entries
          /\ new_files' = check_for_new_pdfs(entries, processed_files)
    /\ attempted' = <<>>
    /\ pos' = 1
    /\ pcM' = "loop"
    /\ UNCHANGED <<processed_files, tick, pcF, steps>>
    /\ UNCHANGED <<varsC, varsP>>

\* Lines 137-139: files_list_folder raises ApiError, [] is returned.
MainListRaises ==
    /\ pcM = "idle"
    /\ tick < MaxTicks
    /\ listed' = <<>> /\ new_files' = <<>> /\ attempted' = <<>> /\ pos' = 1
    /\ pcM' = "loop"
    /\ UNCHANGED <<processed_files, tick, pcF, steps>>
    /\ UNCHANGED <<varsC, varsP>>

\* Lines 204-212: the loop over new_files is over, main returns.
MainEnd ==
    /\ pcM = "loop"
    /\ pcF = "none"
    /\ pos > Len(new_files)
    /\ pcM' = "idle"
    /\ tick' = tick + 1
    /\ UNCHANGED <<processed_files, listed, new_files, pos, attempted, pcF, steps>>
    /\ UNCHANGED <<varsC, varsP>>

Current == new_files[pos].path

\* Line 207 with 145-153: process_pdf_file is called for the next file.
CallProcess ==
    /\ pcM = "loop"
    /\ pcF = "none"
    /\ pos <= Len(new_files)
    /\ attempted' = Append(attempted, Current)
    /\ steps' = [steps EXCEPT ![Current] = <<>>]
    /\ pcF' = "download"
    /\ UNCHANGED <<processed_files, tick, pcM, listed, new_files, pos>>
    /\ UNCHANGED <<varsC, varsP>>

\* process_pdf_file returns (True or False) and the loop of main moves on.
Return(returned) ==
    /\ pcF' = "none"
    /\ pos' = NextFile(pos, returned)

\* Line 157: files_download_to_file completes.
Download ==
    /\ pcF = "download"
    /\ steps' = [steps EXCEPT ![Current] = Append(@, "download")]
    /\ pcF' = "convert"
    /\ UNCHANGED <<processed_files, tick, pcM, listed, new_files, pos, attempted>>
    /\ UNCHANGED <<varsC, varsP>>

\* Lines 157, 180-182: the download raises.
DownloadRaises ==
    /\ pcF = "download"
    /\ Return(FALSE)
    /\ UNCHANGED <<processed_files, tick, pcM, listed, new_files, attempted, steps>>
    /\ UNCHANGED <<varsC, varsP>>

\* Line 160: procesar_pdf returns True.
Convert ==
    /\ pcF = "convert"
    /\ steps' = [steps EXCEPT ![Current] = Append(@, "convert")]
    /\ pcF' = "upload"
    /\ UNCHANGED <<processed_files, tick, pcM, listed, new_files, pos, attempted>>
    /\ UNCHANGED <<varsC, varsP>>

\* ConvertFalse with the path marked as processed although the conversion
\* failed.
ConvertFalseMarksProcessed ==
    /\ pcF = "convert"
    /\ processed_files' = processed_files \cup {new_files[pos].path}
    /\ pcF' = "none"
    /\ pos' = pos + 1
    /\ UNCHANGED <<tick, pcM, listed, new_files, attempted, steps>>
    /\ UNCHANGED <<varsC, varsP>>

\* Lines 160, 176-178: procesar_pdf returns False.
ConvertFalse ==
    /\ pcF = "convert"
    /\ Return(FALSE)
    /\ UNCHANGED <<processed_files, tick, pcM, listed, new_files, attempted, steps>>
    /\ UNCHANGED <<varsC, varsP>>

\* Lines 162-175: the spreadsheet is uploaded and the path is marked.
Upload ==
    /\ pcF = "upload"
    /\ steps' = [steps EXCEPT ![Current] = Append(@, "upload")]
    /\ processed_files' = processed_files \cup {Current}
    /\ Return(TRUE)
    /\ UNCHANGED <<tick, pcM, listed, new_files, attempted>>
    /\ UNCHANGED <<varsC, varsP>>

\* Lines 165-170, 180-182: reading the spreadsheet or files_upload raises.
UploadRaises ==
    /\ pcF = "upload"
    /\ Return(FALSE)
    /\ UNCHANGED <<processed_files, tick, pcM, listed, new_files, attempted, steps>>
    /\ UNCHANGED <<varsC, varsP>>

(***************************************************************************)
(* Specifications                                                          *)
(***************************************************************************)
Init == IdleC /\ InitP /\ IdleM

Next ==
    \/ Open
    \/ OpenRaises
    \/ Pair
    \/ PairUnbound
    \/ ExtractRaises
    \/ ConcatRaises
    \/ Write
    \/ WriteRaises

Spec == Init /\ [][Next]_vars

InitColumns == InitCols /\ IdleP /\ IdleM

NextColumns == CallMakeUnique

SpecCols == InitColumns /\ [][NextColumns]_vars

InitPoll == IdleC /\ IdleP /\ InitM

NextPoll ==
    \/ MainNoClient
    \/ MainList
    \/ MainListRaises
    \/ MainEnd
    \/ CallProcess
    \/ Download
    \/ DownloadRaises
    \/ Convert
    \/ ConvertFalse
    \/ Upload
    \/ UploadRaises

SpecPoll == InitPoll /\ [][NextPoll]_vars

(***************************************************************************)
(* Properties of make_unique_columns (SpecCols)                            *)
(***************************************************************************)

\* C1: the sequence make_unique_columns returns has the length of its input
\* and no two of its names are equal.
C1_NamesUnique ==
    pcC = "returned" =>
        /\ Len(cols_out) = Len(cols_in)
        /\ \A j, k \in 1..Len(cols_out) : j < k => cols_out[j] /= cols_out[k]

\* The number of occurrences of the name at position k before position k.
EarlierOccurrences(cols, k) == Cardinality({j \in 1..(k - 1) : cols[j] = cols[k]})

Occurrences(cols, name) == Cardinality({j \in 1..Len(cols) : cols[j] = name})

\* C2: for every name occurring n >= 2 times in the input, the first
\* occurrence keeps its name and the k-th occurrence (k = 2..n) is named
\* "<name>_<k-1>".
C2_KthOccurrenceRenamed ==
    pcC = "returned" =>
        \A k \in 1..Len(cols_in) :
            Occurrences(cols_in, cols_in[k]) >= 2 =>
                cols_out[k] = IF EarlierOccurrences(cols_in, k) = 0
                              THEN cols_in[k]
                              ELSE Suffixed(cols_in[k], EarlierOccurrences(cols_in, k))

(***************************************************************************)
(* Properties of procesar_pdf (Spec)                                       *)
(***************************************************************************)
Returned(value) == pc = "done" /\ ret = value

IsEmptyCell(cell) == cell = "" \/ cell = NA

AllEmpty(row) == \A c \in 1..Len(row) : IsEmptyCell(row[c])

\* A row with its empty strings written as missing cells.
AsMissing(row) == [c \in 1..Len(row) |-> IF IsEmptyCell(row[c]) THEN NA ELSE row[c]]

\* C3: when procesar_pdf returns False, no file exists at the destination.
C3_FailureLeavesNoFile == Returned("False") => excel_file.state = "absent"

TwoPagesRightNombre ==
    /\ Len(pdf) = 2
    /\ pdf[2] /= NoTable
    /\ "Nombre" \in Range(Head(pdf[2]))

\* C4 as stated: for a two-page PDF whose right table has a column "Nombre",
\* the Result Table has no column "Nombre", whatever the left table is.
C4_NoNombreColumn ==
    (Returned("True") /\ TwoPagesRightNombre) =>
        "Nombre" \notin Range(resultado_final.columns)

\* C4 amended: for a two-page PDF whose right table has a column "Nombre"
\* and whose left table has none, the Result Table has no column "Nombre".
C4_NoNombreFromRight ==
    (Returned("True") /\ TwoPagesRightNombre /\ "Nombre" \notin Range(Head(pdf[1]))) =>
        "Nombre" \notin Range(resultado_final.columns)

C4_Witness ==
    /\ Returned("True") /\ TwoPagesRightNombre
    /\ "Nombre" \notin Range(Head(pdf[1]))
    /\ Len(resultado_final.columns) > Len(Head(pdf[1]))
    /\ excel_file.state = "written"

\* C7 as stated: for a single-page PDF the Result Table is the page's
\* cleaned table: same header, same rows in the same order (an empty cell
\* and a missing cell taken as equal).
C7_SinglePageIsCleanedTable ==
    (Returned("True") /\ Len(pdf) = 1) =>
        /\ resultado_final.columns = CleanLeft(pdf[1]).columns
        /\ resultado_final.data =
              [k \in 1..Len(CleanLeft(pdf[1]).data) |-> AsMissing(CleanLeft(pdf[1]).data[k])]

\* C7 amended: for a single-page PDF the Result Table has the header of the
\* page's cleaned table and, in the same order, those of its rows that have
\* a cell neither empty nor missing, empty cells written as missing.
C7_SinglePageIsCleanedTableNonEmptyRows ==
    (Returned("True") /\ Len(pdf) = 1) =>
        LET kept == SelectSeq(CleanLeft(pdf[1]).data, LAMBDA row : ~AllEmpty(row))
        IN  /\ resultado_final.columns = CleanLeft(pdf[1]).columns
            /\ resultado_final.data = [k \in 1..Len(kept) |-> AsMissing(kept[k])]
            /\ excel_file = [state |-> "written", table |-> resultado_final]

C7_Witness ==
    /\ Returned("True") /\ Len(pdf) = 1
    /\ Len(resultado_final.data) < Len(CleanLeft(pdf[1]).data)
    /\ Len(resultado_final.data) > 0
    /\ \E r \in 1..Len(resultado_final.data) : NA \in Range(resultado_final.data[r])

\* The pages of the j-th pair (j = 1, 2, ...).
LeftPage(j) == pdf[2 * j - 1]

RightPage(j) == IF 2 * j <= Len(pdf) THEN pdf[2 * j] ELSE NoTable

\* C8: the block of a pair whose pages both yield a table has the columns of
\* the cleaned left table followed by those of the cleaned right table and
\* max(left rows, right rows) rows; row k is row k of left followed by row k
\* of right, a side without a row k giving missing cells.  On the two-page
\* scenario of the specification the Result Table is the expected one.
C8_BlockAlignedByRowPosition ==
    /\ \A j \in 1..Len(dataframes) :
          (LeftPage(j) /= NoTable /\ RightPage(j) /= NoTable) =>
              LET l == CleanLeft(LeftPage(j))
                  r == CleanRight(RightPage(j))
                  b == dataframes[j]
              IN  /\ b.columns = l.columns \o r.columns
                  /\ "" \notin Range(b.columns)
                  /\ \A c \in 1..Len(r.columns) :
                        r.columns[c] \notin {"Nombre", "Nº"}
                  /\ Len(b.data) = Max(Len(l.data), Len(r.data))
                  /\ \A k \in 1..Len(b.data) :
                        /\ Len(b.data[k]) = Len(b.columns)
                        /\ \A c \in 1..Len(l.columns) :
                              b.data[k][c] = IF k <= Len(l.data) THEN l.data[k][c] ELSE NA
                        /\ \A c \in 1..Len(r.columns) :
                              b.data[k][Len(l.columns) + c] =
                                  IF k <= Len(r.data) THEN r.data[k][c] ELSE NA
    /\ (Returned("True") /\ pdf = <<TablaValores, TablaNombres>>) =>
          resultado_final = [columns |-> <<"Nº", "Valor", "Extra">>,
                             data |-> << <<"1", "10", "x">>, <<"2", "20", "y">> >>]

C8_Witness ==
    /\ Len(dataframes) >= 1
    /\ LeftPage(1) /= NoTable /\ RightPage(1) /= NoTable
    /\ Len(LeftPage(1)) < Len(RightPage(1))
    /\ Len(dataframes[1].data) = Len(RightPage(1)) - 1
    /\ Len(CleanRight(RightPage(1)).columns) > 0

\* C9: after procesar_pdf succeeds, the Result Table holds, in order, exactly
\* the rows of the vertically concatenated blocks that have a cell neither
\* empty nor missing; none of its rows is all empty or missing.
C9_NoEmptyRows ==
    Returned("True") =>
        LET stacked == ConcatRows(dataframes).data
            kept == SelectSeq(stacked, LAMBDA row : ~AllEmpty(row))
        IN  /\ \A k \in 1..Len(resultado_final.data) :
                  ~AllEmpty(resultado_final.data[k])
            /\ resultado_final.data = [k \in 1..Len(kept) |-> AsMissing(kept[k])]
            /\ excel_file.table = resultado_final

C9_Witness ==
    /\ Returned("True")
    /\ Len(dataframes) >= 2
    /\ \E k \in 1..Len(ConcatRows(dataframes).data) :
          /\ AllEmpty(ConcatRows(dataframes).data[k])
          /\ k < Len(ConcatRows(dataframes).data)
          /\ k > 1
    /\ Len(resultado_final.data) >= 2

\* The latest pair before the j-th whose left page yielded a table.
CarriedFrom(j) ==
    CHOOSE m \in 1..(j - 1) :
        /\ LeftPage(m) /= NoTable
        /\ \A n \in (m + 1)..(j - 1) : LeftPage(n) = NoTable

\* The first column of the Result Table with the given name.
ResultColumn(name) ==
    CHOOSE c \in 1..Len(resultado_final.columns) :
        /\ resultado_final.columns[c] = name
        /\ \A d \in 1..(c - 1) : resultado_final.columns[d] /= name

\* The number of rows of the Result Table that hold row k of the frame l in
\* l's columns.
TimesInResult(l, k) ==
    Cardinality({n \in 1..Len(resultado_final.data) :
        \A c \in 1..Len(l.columns) :
            resultado_final.data[n][ResultColumn(l.columns[c])] = AsMissing(l.data[k])[c]})

\* C10: the block of a pair whose left page yields no table is built from
\* the cleaned left table of the latest earlier pair whose left page yielded
\* one: that table alone, or that table concatenated with the pair's cleaned
\* right table; so the non-empty rows of that left table are in the Result
\* Table once more (at least twice in all).
C10_LeftTableCarriedOver ==
    \A j \in 1..Len(dataframes) :
        LeftPage(j) = NoTable =>
            /\ \E m \in 1..(j - 1) : LeftPage(m) /= NoTable
            /\ LET l == CleanLeft(LeftPage(CarriedFrom(j)))
               IN  /\ dataframes[j] =
                         IF RightPage(j) /= NoTable
                         THEN ConcatColumns(l, CleanRight(RightPage(j)))
                         ELSE l
                   /\ Len(dataframes[j].data) >= Len(l.data)
                   /\ \A k \in 1..Len(l.data) :
                         SubSeq(dataframes[j].data[k], 1, Len(l.columns)) = l.data[k]
                   /\ (Returned("True") /\ ~HasDuplicates(l.columns)) =>
                         \A k \in 1..Len(l.data) :
                             ~AllEmpty(l.data[k]) => TimesInResult(l, k) >= 2

C10_Witness ==
    /\ Returned("True")
    /\ Len(dataframes) = 3
    /\ LeftPage(1) /= NoTable /\ LeftPage(2) = NoTable /\ LeftPage(3) = NoTable
    /\ Len(resultado_final.data) >= 3 * Len(CleanLeft(LeftPage(1)).data)
    /\ Len(CleanLeft(LeftPage(1)).data) > 0

(***************************************************************************)
(* Properties of the poller (SpecPoll)                                     *)
(***************************************************************************)

\* The number of files of new_files that process_pdf_file has been called
\* for in the current run of main.
Called == IF pcF = "none" THEN pos - 1 ELSE pos

\* C5: in one run of main process_pdf_file is called for the files of
\* new_files in listing order, and when main returns it has been called for
\* every one of them, whatever the earlier calls returned.
C5_EveryNewFileAttempted ==
    /\ Called <= Len(new_files)
    /\ attempted = PathsOf(SubSeq(new_files, 1, Called))
    /\ pcM = "idle" => attempted = PathsOf(new_files)

C5_Witness ==
    /\ pcM = "idle"
    /\ Len(new_files) = 3
    /\ attempted = PathsOf(new_files)
    /\ steps[new_files[1].path] = <<>>
    /\ steps[new_files[2].path] = <<"download">>
    /\ steps[new_files[3].path] = <<"download", "convert">>

\* C6, the states: a path is in processed_files only if its latest
\* process_pdf_file call completed the download, the conversion and the
\* upload, in this order; a listed PDF file that is not in the set is in
\* new_files.
ProcessedOnlyAfterFullRun ==
    /\ \A p \in processed_files : steps[p] = FullRun
    /\ \A p \in RemotePaths :
          (steps[p] /= FullRun /\ ~(pcF /= "none" /\ Current = p)) =>
              p \notin processed_files
    /\ pcM = "loop" =>
          \A k \in 1..Len(listed) :
              (listed[k].isFile /\ listed[k].pdfSuffix
                  /\ listed[k].path \notin processed_files) =>
                  listed[k].path \in Range(PathsOf(new_files))

\* C6: ProcessedOnlyAfterFullRun holds in every state and processed_files
\* never loses a path.
C6_ProcessedSet ==
    /\ []ProcessedOnlyAfterFullRun
    /\ [][processed_files \subseteq processed_files']_vars

C6_Witness ==
    /\ pcM = "loop" /\ tick = 1 /\ pos = 1 /\ pcF = "none"
    /\ processed_files = {"/pdfs_a_convertir/a.pdf"}
    /\ steps["/pdfs_a_convertir/b.pdf"] = <<"download">>
    /\ steps["/pdfs_a_convertir/c.pdf"] = <<"download", "convert">>
    /\ PathsOf(new_files) = <<"/pdfs_a_convertir/b.pdf", "/pdfs_a_convertir/c.pdf">>
    /\ Len(listed) = Len(Folder)

====
